---- MODULE Spec2Model ----
(***************************************************************************)
(* Model of phenix's app orchestration (src/go/app/app.go): the app        *)
(* registry with List / GetApp / DefaultApps, and ApplyApps executed one    *)
(* loop iteration at a time, once or twice in succession.                  *)
(***************************************************************************)
EXTENDS Naturals, Integers, Sequences, FiniteSets, TLC

VARIABLES stage, dryRun, hasScenario, scenarioApps, initRes, pc, defs, i, j,
          err, ret, log, appOpts, exp, prevLog, calls, registry, regPc, call

\* the state of one ApplyApps call
callVars == <<stage, dryRun, hasScenario, scenarioApps, initRes, pc, defs, i,
              j, err, ret, log, appOpts, exp, prevLog, calls>>

\* the package-level registry and the last call of List, GetApp or DefaultApps
regVars == <<registry, regPc, call>>

vars == <<callVars, regVars>>

(* ---------------------------- bounds ----------------------------------- *)

\* longest scenario app list that is explored
MaxScenario == 2

\* most commands FindCommandsWithPrefix finds
MaxFound == 2

(* ------------------------- lifecycle actions --------------------------- *)

ACTIONCONFIG == "configure"
ACTIONPRESTART == "pre-start"
ACTIONPOSTSTART == "post-start"
ACTIONCLEANUP == "cleanup"

Stages == {ACTIONCONFIG, ACTIONPRESTART, ACTIONPOSTSTART, ACTIONCLEANUP}

\* Action is a plain string type: options.Stage is "" when no Stage option
\* was passed to ApplyApps.
StageInputs == Stages \cup {""}

(* ------------------------------ registry ------------------------------- *)

\* init() without the registration of vrouter
appsNoVrouter == [name \in {"ntp", "serial", "startup", "user-shell"} |->
                    CASE name = "ntp" -> "NTP"
                      [] name = "serial" -> "Serial"
                      [] name = "startup" -> "Startup"
                      [] name = "user-shell" -> "UserApp"]

\* the instances created by init(); an instance is named after its type
apps == [name \in {"ntp", "serial", "startup", "user-shell", "vrouter"} |->
           CASE name = "ntp" -> "NTP"
             [] name = "serial" -> "Serial"
             [] name = "startup" -> "Startup"
             [] name = "user-shell" -> "UserApp"
             [] name = "vrouter" -> "Vrouter"]

defaultApps == {"ntp", "serial", "startup", "vrouter"}

Instances == {apps[n] : n \in DOMAIN apps}

\* GetApp without the fallback to the user-shell entry
GetAppNoFallback(name) == IF name \in DOMAIN apps THEN apps[name] ELSE "nil"

GetApp(name) == IF name \in DOMAIN apps THEN apps[name] ELSE apps["user-shell"]

\* the orders in which ranging over the defaultApps map can yield its keys
MapOrders(S) == {f \in [1..Cardinality(S) -> S] :
                   \A a, b \in 1..Cardinality(S) : a # b => f[a] # f[b]}

\* DefaultApps() appending the same instance on every iteration
DefaultAppsRepeat(order) == [k \in DOMAIN order |-> apps[order[1]]]

\* DefaultApps() for one iteration order of the defaultApps map
DefaultApps(order) == [k \in DOMAIN order |-> apps[order[k]]]

\* line 32: apps = make(map[string]App), before init() has run
EmptyRegistry == [name \in {} |-> "nil"]

\* List() without the test for the user-shell name
ListKeepShell(name) == name \notin defaultApps

\* lines 46-58: the registry names List() keeps
ListKeep(name) == name # "user-shell" /\ name \notin defaultApps

\* List() for one iteration order of the apps map and one answer of
\* shell.FindCommandsWithPrefix("phenix-app-")
List(order, found) == SelectSeq(order, ListKeep) \o found

\* names GetApp is asked for: every registered name and names without entry
QueryNames == DOMAIN apps \cup {"X", "Y", ""}

\* names of external commands; a command may carry the name of a built-in app
CommandNames == {"foo", "ntp", "user-shell"}

FoundInputs == UNION {[1..n -> CommandNames] : n \in 0..MaxFound}

NoCall == [op |-> "none", name |-> "", order |-> <<>>, found |-> <<>>,
           app |-> "", out |-> <<>>]

(* ------------------------------- errors -------------------------------- *)

\* An error is its Unwrap chain, outermost layer first; nil is the empty chain.
NilErr == <<>>

Layer(text, app, action) == [text |-> text, app |-> app, action |-> action]

ErrUserAppNotFound == <<Layer("user app not found", "", "")>>

\* fmt.Errorf with %v in place of %w: the cause is formatted, not wrapped
WrapOpaque(layer, e) == <<layer>>

\* fmt.Errorf("...: %w", err): a new layer in front of the wrapped chain
Wrap(layer, e) == <<layer>> \o e

\* err == target in place of errors.Is
ErrorsIsExact(e, target) == e = target

\* errors.Is: some error of the Unwrap chain is the target
ErrorsIs(e, target) ==
    \E k \in 1..Len(e) : SubSeq(e, k, Len(e)) = target

\* what a lifecycle hook may return
HookResults == { NilErr,
                 ErrUserAppNotFound,
                 <<Layer("running user app", "", "")>> \o ErrUserAppNotFound,
                 <<Layer("hook failed", "", "")>> }

\* what Init may return; the app decides it, initRes is its answer in this run
InitResults == { NilErr, <<Layer("init failed", "", "")>> }

(* ------------------------- app implementations ------------------------- *)

\* Init(Name(n), DryRun(d)) binds the per-invocation identity of an app
InitOpts(n, d) == [name |-> n, dryRun |-> d]

\* a.Name(): the built-in apps answer their registry name, the external
\* command adapter answers the name bound by its last Init
Name(a, opts) ==
    CASE a = "NTP" -> "ntp"
      [] a = "Serial" -> "serial"
      [] a = "Startup" -> "startup"
      [] a = "Vrouter" -> "vrouter"
      [] OTHER -> opts[a].name

\* the switch with the pre-start case calling Configure
HookOfSwapped(s) ==
    CASE s = ACTIONCONFIG -> "Configure"
      [] s = ACTIONPRESTART -> "Configure"
      [] s = ACTIONPOSTSTART -> "PostStart"
      [] s = ACTIONCLEANUP -> "Cleanup"

HookOf(s) ==
    CASE s = ACTIONCONFIG -> "Configure"
      [] s = ACTIONPRESTART -> "PreStart"
      [] s = ACTIONPOSTSTART -> "PostStart"
      [] s = ACTIONCLEANUP -> "Cleanup"

(* ------------------------------- events -------------------------------- *)

\* everything ApplyApps does to its collaborators is appended to log
Event(ev, pass, app, idx, name, what, dry, res) ==
    [ev |-> ev, pass |-> pass, app |-> app, idx |-> idx, name |-> name,
     what |-> what, dry |-> dry, res |-> res]

HookEvent(pass, a, idx, name, s, res) ==
    Event("hook", pass, a, idx, name, HookOf(s), FALSE, res)

\* Init called without the DryRun option
InitEventNoDryRun(a, idx, n, d, res) ==
    Event("init", 2, a, idx, n, "Init", FALSE, res)

InitEvent(a, idx, n, d, res) == Event("init", 2, a, idx, n, "Init", d, res)

StatusEvent(pass, a, idx, name, status, s) ==
    Event("status", pass, a, idx, name, status, FALSE, <<Layer(s, "", "")>>)

SetDefaultsEvent == Event("setdefaults", 3, "", 0, "", "SetDefaults", FALSE, NilErr)

\* the switch with a default case that calls Configure
SwitchEventsDefaultCase(pass, a, idx, name, s, res) ==
    IF s \in Stages
      THEN <<HookEvent(pass, a, idx, name, s, res)>>
      ELSE <<Event("hook", pass, a, idx, name, "Configure", FALSE, res)>>

\* the switch on options.Stage: a hook call for the four actions, nothing
\* (err keeps its value) for any other stage
SwitchEvents(pass, a, idx, name, s, res) ==
    IF s \in Stages THEN <<HookEvent(pass, a, idx, name, s, res)>> ELSE <<>>

SwitchErr(s, res, old) == IF s \in Stages THEN res ELSE old

\* a hook leaves its mark on the experiment it is passed, whatever it returns
HookEffect(x, a, idx, hook) == Append(x, [by |-> a, idx |-> idx, what |-> hook])

\* exp.Spec.SetDefaults() leaves its mark on the experiment
SetDefaultsEffect(x) == Append(x, [by |-> "Spec", idx |-> 0, what |-> "SetDefaults"])

\* the experiment after the switch on options.Stage
SwitchExp(x, a, idx, s) ==
    IF s \in Stages THEN HookEffect(x, a, idx, HookOf(s)) ELSE x

\* what the hook of app a for scenario entry idx (0 for a default app) may
\* return: anything in a first call, in a repeated call what it returned in
\* the call before if it was invoked there
Behaviour(a, idx) ==
    LET P == {k \in DOMAIN prevLog : /\ prevLog[k].ev = "hook"
                                      /\ prevLog[k].app = a
                                      /\ prevLog[k].idx = idx}
    IN IF P = {} THEN HookResults ELSE {prevLog[k].res : k \in P}

(* --------------------------- scenario inputs --------------------------- *)

\* names a scenario may declare: a default name and two
\* names without a registry entry
ScenarioNames == {"ntp", "X", "Y"}

ScenarioInputs == UNION {[1..n -> ScenarioNames] : n \in 0..MaxScenario}

(* ------------------------------ ApplyApps ------------------------------ *)

\* pass 2 without the check for default names
IsDefaultNever(name) == FALSE

\* line 160: _, ok := defaultApps[app.Name()]
IsDefault(name) == name \in defaultApps

\* the scenario apps visited last to first
RangeIndexReverse(k) == Len(scenarioApps) - k

\* the second iteration visiting the first entry again
RangeIndexStuck(k) == IF k = 0 THEN 1 ELSE k

\* line 158: the entry (1-based) that iteration k (0-based) of the range over
\* Scenario().Apps() visits
RangeIndex(k) == k + 1

\* err = a.Init(...) in place of the bare call
InitErrAssigned(ires, old) == ires

\* line 165: the result of a.Init is dropped, err keeps its value
InitErr(ires, old) == old

\* lines 141-148: the status reported for a default app
DefaultStatus(e) == IF e # NilErr THEN "failed" ELSE "ok"

\* pass 1 without the return of line 153
DefaultFatalNever(e) == FALSE

\* pass 1 with the error policy of pass 2
DefaultFatalLenient(e) == e # NilErr /\ ~ErrorsIs(e, ErrUserAppNotFound)

\* line 152: any error of a default app ends the call
DefaultFatal(e) == e # NilErr

\* pass 2 with the status of pass 1: no unresolved status
ScenarioStatusNoUnresolved(e) == IF e # NilErr THEN "failed" ELSE "ok"

\* lines 179-191: the status reported for a scenario app
ScenarioStatus(e) ==
    IF e # NilErr
      THEN IF ErrorsIs(e, ErrUserAppNotFound) THEN "unresolved" ELSE "failed"
      ELSE "ok"

\* the sentinel test of line 196 inverted
ScenarioFatalInverted(e) == e # NilErr /\ ErrorsIs(e, ErrUserAppNotFound)

\* lines 195-201: an error of a scenario app ends the call unless it is the
\* unresolved-app sentinel
ScenarioFatal(e) == e # NilErr /\ ~ErrorsIs(e, ErrUserAppNotFound)

\* SetDefaults also run after post-start
NeedsDefaultsPostStart(s) ==
    s = ACTIONCONFIG \/ s = ACTIONPRESTART \/ s = ACTIONPOSTSTART

\* line 205: the stages after which SetDefaults runs
NeedsDefaults(s) == s = ACTIONCONFIG \/ s = ACTIONPRESTART

\* lines 157-158: where control goes once k scenario entries have been passed
AtScenario(k) ==
    IF hasScenario /\ k < Len(scenarioApps) THEN "pass2" ELSE "post"

Init ==
    /\ stage \in StageInputs
    /\ dryRun \in BOOLEAN
    /\ hasScenario \in BOOLEAN
    /\ scenarioApps \in ScenarioInputs
    /\ (~hasScenario => scenarioApps = <<>>)
    /\ initRes \in InitResults
    /\ pc = "entry"
    /\ defs = <<>>
    /\ i = 0
    /\ j = 0
    /\ err = NilErr
    /\ ret = NilErr
    /\ log = <<>>
    /\ appOpts = [a \in Instances |-> InitOpts("", FALSE)]
    /\ exp = <<>>
    /\ prevLog = <<>>
    /\ calls = 1
    /\ registry = apps
    /\ regPc = "ready"
    /\ call = NoCall

\* line 128: the range expression DefaultApps() is evaluated once
CallDefaultApps ==
    /\ pc = "entry"
    /\ \E order \in MapOrders(defaultApps) : defs' = DefaultApps(order)
    /\ pc' = "pass1"
    /\ UNCHANGED <<stage, dryRun, hasScenario, scenarioApps, initRes, i, j,
                   err, ret, log, appOpts, exp, prevLog, calls>>
    /\ UNCHANGED regVars

\* lines 128-155: one iteration of the default app loop
ApplyDefaultApp ==
    /\ pc = "pass1"
    /\ i < Len(defs)
    /\ \E res \in Behaviour(defs[i + 1], 0) :
         LET a == defs[i + 1]
             n == Name(a, appOpts)
             e == SwitchErr(stage, res, err)
         IN /\ err' = e
            /\ exp' = SwitchExp(exp, a, 0, stage)
            /\ log' = log \o SwitchEvents(1, a, 0, n, stage, res)
                          \o <<StatusEvent(1, a, 0, n, DefaultStatus(e), stage)>>
            /\ IF DefaultFatal(e)
                 THEN /\ ret' = Wrap(Layer("applying default app", n, stage), e)
                      /\ pc' = "done"
                      /\ i' = i
                 ELSE /\ ret' = ret
                      /\ i' = i + 1
                      /\ pc' = IF i + 1 < Len(defs) THEN "pass1" ELSE AtScenario(0)
    /\ UNCHANGED <<stage, dryRun, hasScenario, scenarioApps, initRes, defs, j,
                   appOpts, prevLog, calls>>
    /\ UNCHANGED regVars

\* lines 158-162: a scenario entry that names a default app is passed over
SkipDefaultApp ==
    /\ pc = "pass2"
    /\ IsDefault(scenarioApps[RangeIndex(j)])
    /\ j' = j + 1
    /\ pc' = AtScenario(j + 1)
    /\ UNCHANGED <<stage, dryRun, hasScenario, scenarioApps, initRes, defs, i,
                   err, ret, log, appOpts, exp, prevLog, calls>>
    /\ UNCHANGED regVars

\* lines 164-201: one iteration of the scenario app loop
ApplyScenarioApp ==
    /\ pc = "pass2"
    /\ ~IsDefault(scenarioApps[RangeIndex(j)])
    /\ \E res \in Behaviour(GetApp(scenarioApps[RangeIndex(j)]), RangeIndex(j)) :
         LET idx == RangeIndex(j)
             declared == scenarioApps[idx]
             a == GetApp(declared)
             opts == [appOpts EXCEPT ![a] = InitOpts(declared, dryRun)]
             n == Name(a, opts)
             e == SwitchErr(stage, res, InitErr(initRes, err))
         IN /\ appOpts' = opts
            /\ exp' = SwitchExp(exp, a, idx, stage)
            /\ err' = e
            /\ log' = log \o <<InitEvent(a, idx, declared, dryRun, initRes)>>
                          \o SwitchEvents(2, a, idx, n, stage, res)
                          \o <<StatusEvent(2, a, idx, n, ScenarioStatus(e), stage)>>
            /\ IF ScenarioFatal(e)
                 THEN /\ ret' = Wrap(Layer("applying experiment app", n, stage), e)
                      /\ pc' = "done"
                      /\ j' = j
                 ELSE /\ ret' = ret
                      /\ j' = j + 1
                      /\ pc' = AtScenario(j + 1)
    /\ UNCHANGED <<stage, dryRun, hasScenario, scenarioApps, initRes, defs, i,
                   prevLog, calls>>
    /\ UNCHANGED regVars

\* lines 205-210: the post-pass SetDefaults and the nil return
PostPass ==
    /\ pc = "post"
    /\ log' = IF NeedsDefaults(stage) THEN Append(log, SetDefaultsEvent) ELSE log
    /\ exp' = IF NeedsDefaults(stage) THEN SetDefaultsEffect(exp) ELSE exp
    /\ ret' = NilErr
    /\ pc' = "done"
    /\ UNCHANGED <<stage, dryRun, hasScenario, scenarioApps, initRes, defs, i, j,
                   err, appOpts, prevLog, calls>>
    /\ UNCHANGED regVars

Next ==
    \/ CallDefaultApps
    \/ ApplyDefaultApp
    \/ SkipDefaultApp
    \/ ApplyScenarioApp
    \/ PostPass

Spec == Init /\ [][Next]_vars

(* ------------------------- ApplyApps called twice ---------------------- *)

\* a cleanup of an experiment
TwiceInit == Init /\ stage = ACTIONCLEANUP

\* lines 122-126: the caller invokes ApplyApps again with the same options on
\* the same experiment; the app instances and the experiment are kept, the
\* locals of the call are new
CallAgain ==
    /\ pc = "done"
    /\ calls = 1
    /\ calls' = 2
    /\ prevLog' = log
    /\ log' = <<>>
    /\ pc' = "entry"
    /\ defs' = <<>>
    /\ i' = 0
    /\ j' = 0
    /\ err' = NilErr
    /\ ret' = NilErr
    /\ UNCHANGED <<stage, dryRun, hasScenario, scenarioApps, initRes, appOpts,
                   exp>>
    /\ UNCHANGED regVars

TwiceNext ==
    \/ CallDefaultApps
    \/ ApplyDefaultApp
    \/ SkipDefaultApp
    \/ ApplyScenarioApp
    \/ PostPass
    \/ CallAgain

TwiceSpec == TwiceInit /\ [][TwiceNext]_vars

(* ------------------------- the registry functions ---------------------- *)

\* the process before init(): an empty registry, no ApplyApps call under way
RegInit ==
    /\ registry = EmptyRegistry
    /\ regPc = "boot"
    /\ call = NoCall
    /\ stage = ""
    /\ dryRun = FALSE
    /\ hasScenario = FALSE
    /\ scenarioApps = <<>>
    /\ initRes = NilErr
    /\ pc = "idle"
    /\ defs = <<>>
    /\ i = 0
    /\ j = 0
    /\ err = NilErr
    /\ ret = NilErr
    /\ log = <<>>
    /\ appOpts = [a \in Instances |-> InitOpts("", FALSE)]
    /\ exp = <<>>
    /\ prevLog = <<>>
    /\ calls = 1

\* lines 13-19: init() registers the five built-in apps
ProcessInit ==
    /\ regPc = "boot"
    /\ registry' = apps
    /\ regPc' = "ready"
    /\ UNCHANGED <<call, callVars>>

\* lines 70-77: a call of GetApp
QueryGetApp ==
    /\ regPc = "ready"
    /\ call.op = "none"
    /\ \E name \in QueryNames :
         call' = [NoCall EXCEPT !.op = "GetApp", !.name = name,
                                !.app = GetApp(name)]
    /\ UNCHANGED <<registry, regPc, callVars>>

\* lines 80-88: a call of DefaultApps
QueryDefaultApps ==
    /\ regPc = "ready"
    /\ call.op = "none"
    /\ \E order \in MapOrders(defaultApps) :
         call' = [NoCall EXCEPT !.op = "DefaultApps", !.order = order,
                                !.out = DefaultApps(order)]
    /\ UNCHANGED <<registry, regPc, callVars>>

\* lines 43-65: a call of List
QueryList ==
    /\ regPc = "ready"
    /\ call.op = "none"
    /\ \E order \in MapOrders(DOMAIN registry), found \in FoundInputs :
         call' = [NoCall EXCEPT !.op = "List", !.order = order,
                                !.found = found, !.out = List(order, found)]
    /\ UNCHANGED <<registry, regPc, callVars>>

\* the call returns, its caller has taken the result
QueryReturn ==
    /\ call.op # "none"
    /\ call' = NoCall
    /\ UNCHANGED <<registry, regPc, callVars>>

RegNext ==
    \/ ProcessInit
    \/ QueryGetApp
    \/ QueryDefaultApps
    \/ QueryList
    \/ QueryReturn

RegSpec == RegInit /\ [][RegNext]_vars

(* ---------------------------- reading the log -------------------------- *)

HookIdx == {k \in DOMAIN log : log[k].ev = "hook"}

InitIdx == {k \in DOMAIN log : log[k].ev = "init"}

StatusIdx == {k \in DOMAIN log : log[k].ev = "status"}

SetDefaultsIdx == {k \in DOMAIN log : log[k].ev = "setdefaults"}

\* the hook calls made on instance a
HooksOn(a) == {k \in HookIdx : log[k].app = a}

\* a chain that ends in the unresolved-app sentinel
EndsInSentinel(e) ==
    e # <<>> /\ e[Len(e)] = [text |-> "user app not found", app |-> "", action |-> ""]

\* the hook calls whose result ends the call: any error in pass 1, any error
\* but the sentinel in pass 2
FatalIdx ==
    {k \in HookIdx : /\ log[k].res # <<>>
                     /\ (log[k].pass = 1 \/ ~EndsInSentinel(log[k].res))}

Done == pc = "done"

(* ------------------------------ properties ----------------------------- *)

\* the hook that belongs to the requested stage
ExpectedHook ==
    CASE stage = "configure" -> "Configure"
      [] stage = "pre-start" -> "PreStart"
      [] stage = "post-start" -> "PostStart"
      [] stage = "cleanup" -> "Cleanup"
      [] OTHER -> "none"

SetDefaultsCalls == Cardinality(SetDefaultsIdx)

\* the scenario entries that do not name a default app
NonDefaultEntries ==
    {k \in DOMAIN scenarioApps :
       scenarioApps[k] \notin {"ntp", "serial", "startup", "vrouter"}}

\* C1: for each of the four stages and each order of DefaultApps(), a call
\* without scenario in which no hook errs has invoked the stage's hook of
\* each of ntp, serial, startup and vrouter exactly once and nothing else,
\* and SetDefaults once for configure and pre-start, never otherwise.
C1_NoScenarioDefaultsOnce ==
    (/\ Done
     /\ stage \in Stages
     /\ ~hasScenario
     /\ \A k \in HookIdx : log[k].res = <<>>)
    => /\ \A n \in {"ntp", "serial", "startup", "vrouter"} :
            Cardinality({k \in HookIdx : /\ log[k].app = apps[n]
                                         /\ log[k].what = ExpectedHook}) = 1
       /\ Cardinality(HookIdx) = 4
       /\ SetDefaultsCalls = IF stage \in {"configure", "pre-start"} THEN 1 ELSE 0

C1_Witness ==
    /\ Done
    /\ stage = "post-start"
    /\ ~hasScenario
    /\ ret = <<>>
    /\ defs = <<"Vrouter", "Startup", "NTP", "Serial">>
    /\ Cardinality(HookIdx) = 4
    /\ SetDefaultsCalls = 0

\* C2: once a default app's hook has returned an error, the call is over
\* with a non-nil error: the only thing that follows the hook is its status
\* record, no further default hook, no Init or hook of a scenario app and no
\* SetDefaults.
C2_DefaultErrorStops ==
    \A k \in HookIdx :
      (log[k].pass = 1 /\ log[k].res # <<>>)
      => /\ Done
         /\ ret # <<>>
         /\ Len(log) = k + 1
         /\ log[k + 1].ev = "status"
         /\ \A m \in DOMAIN log : log[m].pass = 1
         /\ j = 0
         /\ \A a \in Instances : appOpts[a] = [name |-> "", dryRun |-> FALSE]

C2_Witness ==
    /\ Done
    /\ stage = "configure"
    /\ hasScenario
    /\ scenarioApps = <<"X", "Y">>
    /\ Cardinality(HookIdx) = 2
    /\ \E k \in HookIdx : log[k].pass = 1 /\ EndsInSentinel(log[k].res)
    /\ ret # <<>>

\* C3: once the hook of a non-default scenario app has returned an error
\* that is not the unresolved-app sentinel, the call is over: no later entry
\* is Init-ed or invoked, SetDefaults is not invoked, and the returned error
\* wraps the name declared in the scenario, the requested stage and the
\* hook's error.
C3_ScenarioErrorStops ==
    \A k \in HookIdx :
      (log[k].pass = 2 /\ log[k].res # <<>> /\ ~EndsInSentinel(log[k].res))
      => /\ Done
         /\ Len(log) = k + 1
         /\ log[k + 1].ev = "status"
         /\ SetDefaultsCalls = 0
         /\ \A m \in DOMAIN log : log[m].idx <= log[k].idx
         /\ ret = <<[text |-> "applying experiment app",
                     app |-> scenarioApps[log[k].idx],
                     action |-> stage]>> \o log[k].res

C3_Witness ==
    /\ Done
    /\ stage = "pre-start"
    /\ scenarioApps = <<"X", "Y">>
    /\ \E k \in HookIdx : log[k].pass = 2 /\ log[k].idx = 1 /\ log[k].res # <<>>
    /\ ret # <<>>
    /\ ret[1].app = "X"
    /\ ret[1].action = "pre-start"
    /\ \A m \in DOMAIN log : log[m].idx # 2

\* C4: a scenario hook that returns the unresolved-app sentinel, bare or
\* wrapped, is reported as unresolved and does not end the call; a finished
\* call in which no hook failed otherwise has returned nil, has invoked the
\* hook of every non-default scenario entry in declared order and has run
\* SetDefaults for configure and pre-start.
C4_UnresolvedContinues ==
    /\ \A k \in HookIdx :
         (log[k].pass = 2 /\ EndsInSentinel(log[k].res))
         => /\ k < Len(log)
            /\ log[k + 1].ev = "status"
            /\ log[k + 1].what = "unresolved"
            /\ log[k + 1].idx = log[k].idx
            /\ ~(Done /\ Len(log) = k + 1 /\ ret # <<>>)
    /\ (Done /\ stage \in Stages /\ FatalIdx = {})
         => /\ ret = <<>>
            /\ {log[k].idx : k \in {h \in HookIdx : log[h].pass = 2}}
                 = NonDefaultEntries
            /\ \A k, m \in HookIdx :
                 (log[k].pass = 2 /\ log[m].pass = 2 /\ k < m)
                 => log[k].idx < log[m].idx
            /\ SetDefaultsCalls = IF stage \in {"configure", "pre-start"}
                                    THEN 1 ELSE 0

C4_Witness ==
    /\ Done
    /\ stage = "configure"
    /\ scenarioApps = <<"X", "Y">>
    /\ ret = <<>>
    /\ SetDefaultsCalls = 1
    /\ \E k, m \in HookIdx :
         /\ k < m
         /\ log[k].idx = 1
         /\ Len(log[k].res) = 2
         /\ EndsInSentinel(log[k].res)
         /\ log[k + 1].what = "unresolved"
         /\ log[m].idx = 2
         /\ log[m].res = <<>>

\* C5: a scenario entry that names a default app gets no Init, no hook call
\* and no status record in pass 2; every default app has its hook invoked at
\* most once in the whole call, in pass 1.
C5_DefaultEntriesSkipped ==
    /\ \A m \in DOMAIN log :
         log[m].pass = 2
         => scenarioApps[log[m].idx] \notin {"ntp", "serial", "startup", "vrouter"}
    /\ \A a \in {"NTP", "Serial", "Startup", "Vrouter"} :
         /\ Cardinality(HooksOn(a)) <= 1
         /\ \A k \in HooksOn(a) : log[k].pass = 1

C5_Witness ==
    /\ Done
    /\ stage = "cleanup"
    /\ scenarioApps = <<"ntp", "X">>
    /\ ret = <<>>
    /\ Cardinality(HooksOn("NTP")) = 1
    /\ {log[k].idx : k \in {h \in HookIdx : log[h].pass = 2}} = {2}

IsPass2Hook(e) == e.ev = "hook" /\ e.pass = 2

NotDefaultName(n) == n \notin {"ntp", "serial", "startup", "vrouter"}

\* the names declared by the entries whose hook pass 2 has invoked, in
\* invocation order
Pass2Invoked ==
    LET H == SelectSeq(log, IsPass2Hook)
    IN [k \in DOMAIN H |-> scenarioApps[H[k].idx]]

\* C6: the hooks of non-default scenario apps are invoked in declared order:
\* the invoked names are a prefix of the declared list without the default
\* names; everything pass 1 does precedes everything pass 2 does, and pass 2
\* acts only after all four default apps succeeded.
C6_DeclaredOrder ==
    /\ LET F == SelectSeq(scenarioApps, NotDefaultName)
           H == Pass2Invoked
       IN /\ Len(H) <= Len(F)
          /\ H = SubSeq(F, 1, Len(H))
    /\ LET H == SelectSeq(log, IsPass2Hook)
       IN \A k \in 1..(Len(H) - 1) : H[k].idx < H[k + 1].idx
    \* no event of pass 1 directly follows an event of pass 2, hence none
    \* follows one at all
    /\ \A m \in 1..(Len(log) - 1) : log[m].pass >= 2 => log[m + 1].pass >= 2
    /\ (\E m \in DOMAIN log : log[m].pass = 2)
         => /\ i = 4
            /\ \A k \in HookIdx : log[k].pass = 1 => log[k].res = <<>>

C6_Witness ==
    /\ Done
    /\ stage = "post-start"
    /\ scenarioApps = <<"Y", "X">>
    /\ Pass2Invoked = <<"Y", "X">>
    /\ Cardinality({k \in HookIdx : log[k].pass = 1}) = 4

\* C7: SetDefaults is invoked at most once; it has been invoked exactly when
\* the call has returned nil for configure or pre-start, and then it is the
\* last thing the call did, after every hook. It is never invoked for
\* post-start or cleanup nor in a call that returns an error.
C7_SetDefaultsOnceAtEnd ==
    /\ SetDefaultsCalls <= 1
    /\ (SetDefaultsCalls = 1)
         <=> (Done /\ ret = <<>> /\ stage \in {"configure", "pre-start"})
    /\ \A k \in SetDefaultsIdx :
         /\ k = Len(log)
         /\ \A h \in HookIdx : h < k

C7_Witness ==
    /\ Done
    /\ stage = "pre-start"
    /\ scenarioApps = <<"Y", "X">>
    /\ SetDefaultsCalls = 1
    /\ Cardinality(HookIdx) = 6
    /\ log[Len(log)].ev = "setdefaults"

\* C8: a finished call has returned a non-nil error exactly if some default
\* hook returned any error or some scenario hook returned an error other
\* than the unresolved-app sentinel; the returned error wraps the first such
\* error, and a sentinel returned by a scenario hook is never what the
\* caller gets.
C8_FirstFatalSurfaces ==
    Done =>
      /\ (ret # <<>>) <=> (FatalIdx # {})
      /\ FatalIdx # {}
           => LET f == CHOOSE k \in FatalIdx : \A m \in FatalIdx : k <= m
              IN /\ Len(ret) = Len(log[f].res) + 1
                 /\ Tail(ret) = log[f].res
                 /\ ret[1].action = stage
                 /\ (EndsInSentinel(ret) => log[f].pass = 1)

C8_Witness ==
    /\ Done
    /\ stage = "cleanup"
    /\ scenarioApps = <<"X", "Y">>
    /\ \E k, m \in HookIdx :
         /\ k < m
         /\ log[k].pass = 2
         /\ EndsInSentinel(log[k].res)
         /\ log[m].pass = 2
         /\ log[m].res # <<>>
         /\ ~EndsInSentinel(log[m].res)
         /\ Tail(ret) = log[m].res

\* C9 as stated: within one call no app instance has its hook invoked more
\* than once, whatever the scenario.
C9_InstanceInvokedOnce ==
    \A a \in Instances : Cardinality(HooksOn(a)) <= 1

\* C9 (amended): there is no retry: each default app instance has its hook
\* invoked at most once and each non-default scenario entry has its hook
\* invoked at most once; an instance that several entries resolve to is
\* invoked once for each of those entries.
C9_EntryInvokedOnce ==
    /\ \A a \in {"NTP", "Serial", "Startup", "Vrouter"} :
         Cardinality(HooksOn(a)) <= 1
    /\ LET H == SelectSeq(log, IsPass2Hook)
       IN Cardinality({H[k].idx : k \in DOMAIN H}) = Len(H)
    /\ Cardinality(HooksOn("UserApp"))
         = Cardinality({log[k].idx : k \in HooksOn("UserApp")})

C9_Witness ==
    /\ Done
    /\ stage = "configure"
    /\ scenarioApps = <<"X", "X">>
    /\ Cardinality(HooksOn("UserApp")) = 2

\* C10: every hook that is called is the one of the requested stage
\* (configure -> Configure, pre-start -> PreStart, post-start -> PostStart,
\* cleanup -> Cleanup), and for one of these four stages every app that is
\* reached has exactly one hook called: each status record directly follows
\* the one hook call of its app, each hook call is directly followed by its
\* status record.
C10_OnlyStageHook ==
    /\ \A k \in HookIdx :
         /\ stage \in {"configure", "pre-start", "post-start", "cleanup"}
         /\ log[k].what = ExpectedHook
         /\ k < Len(log)
         /\ log[k + 1].ev = "status"
    /\ stage \in {"configure", "pre-start", "post-start", "cleanup"}
         => \A k \in StatusIdx :
              /\ k > 1
              /\ log[k - 1].ev = "hook"
              /\ log[k - 1].app = log[k].app
              /\ log[k - 1].idx = log[k].idx

C10_Witness ==
    /\ Done
    /\ stage = "pre-start"
    /\ scenarioApps = <<"X">>
    /\ Cardinality(HookIdx) = 5
    /\ \A k \in HookIdx : log[k].what = "PreStart"

\* C12: every Init of pass 2 is given the declared name of its entry and
\* the caller's DryRun, comes after the status record of the app before it
\* and after all of pass 1, and is directly followed by the hook call of the
\* same entry on the same instance; every hook call of pass 2 directly
\* follows the Init of its own entry, also when entries share the adapter
\* instance; no default app is ever Init-ed.
C12_InitBindsEachEntry ==
    /\ \A k \in InitIdx :
         /\ log[k].pass = 2
         /\ log[k].idx \in NonDefaultEntries
         /\ log[k].name = scenarioApps[log[k].idx]
         /\ log[k].dry = dryRun
         /\ log[k].app \notin {"NTP", "Serial", "Startup", "Vrouter"}
         /\ k > 1
         /\ log[k - 1].ev = "status"
         /\ \A m \in DOMAIN log : log[m].pass = 1 => m < k
         /\ stage \in {"configure", "pre-start", "post-start", "cleanup"}
              => /\ k < Len(log)
                 /\ log[k + 1].ev = "hook"
                 /\ log[k + 1].idx = log[k].idx
                 /\ log[k + 1].app = log[k].app
    /\ \A h \in HookIdx :
         log[h].pass = 2
         => /\ log[h - 1].ev = "init"
            /\ log[h - 1].idx = log[h].idx
            /\ log[h - 1].app = log[h].app
    /\ \A a \in {"NTP", "Serial", "Startup", "Vrouter"} :
         appOpts[a] = [name |-> "", dryRun |-> FALSE]

C12_Witness ==
    /\ Done
    /\ stage = "configure"
    /\ dryRun
    /\ scenarioApps = <<"X", "Y">>
    /\ \E k, m \in InitIdx :
         /\ k < m
         /\ log[k].name = "X"
         /\ log[m].name = "Y"
         /\ log[k].app = log[m].app
         /\ log[k].dry
         /\ log[m].dry
         /\ log[m + 1].ev = "hook"

\* the status that belongs to hook result e in the given pass
ExpectedStatus(e, pass) ==
    IF e = <<>> THEN "ok"
    ELSE IF pass = 2 /\ EndsInSentinel(e) THEN "unresolved" ELSE "failed"

\* C15: every hook call is directly followed by exactly one status record
\* of the same app, entry and stage: ok iff the hook returned nil,
\* unresolved iff a scenario hook returned the sentinel, failed otherwise;
\* for the four stages there is no status record without its hook call, and
\* entries that name a default app get no record.
C15_OneStatusPerHook ==
    /\ \A h \in HookIdx :
         /\ h < Len(log)
         /\ log[h + 1].ev = "status"
         /\ log[h + 1].app = log[h].app
         /\ log[h + 1].idx = log[h].idx
         /\ log[h + 1].pass = log[h].pass
         /\ log[h + 1].res = <<[text |-> stage, app |-> "", action |-> ""]>>
         /\ log[h + 1].what = ExpectedStatus(log[h].res, log[h].pass)
         /\ (h + 2 \in DOMAIN log => log[h + 2].ev # "status")
    /\ \A k \in StatusIdx :
         /\ log[k].pass = 2 => log[k].idx \in NonDefaultEntries
         /\ stage \in {"configure", "pre-start", "post-start", "cleanup"}
              => (k > 1 /\ log[k - 1].ev = "hook")

C15_Witness ==
    /\ Done
    /\ stage = "post-start"
    /\ scenarioApps = <<"X", "Y">>
    /\ \E k, m \in StatusIdx :
         /\ log[k].idx = 1
         /\ log[k].what = "unresolved"
         /\ log[m].idx = 2
         /\ log[m].what = "failed"
    /\ Cardinality({k \in StatusIdx : log[k].what = "ok"}) = 4

IsHook(e) == e.ev = "hook"

IsEffect(e) == e.ev = "hook" \/ e.ev = "setdefaults"

\* the marks that the calls recorded in q have left on the experiment
EffectsOf(q) ==
    LET H == SelectSeq(q, IsEffect)
    IN [k \in DOMAIN H |->
          IF H[k].ev = "hook"
            THEN [by |-> H[k].app, idx |-> H[k].idx, what |-> H[k].what]
            ELSE [by |-> "Spec", idx |-> 0, what |-> "SetDefaults"]]

\* C17: the experiment always holds exactly the effects of the hooks
\* invoked so far, in invocation order (and that of SetDefaults once it
\* ran): nothing is undone, nothing else is added. When the call has
\* returned an error the failing hook is the last one invoked, its effect is
\* the last one on the experiment and SetDefaults has not touched it.
C17_FailFastNoRollback ==
    /\ exp = EffectsOf(log)
    /\ (Done /\ FatalIdx # {})
         => /\ ret # <<>>
            /\ \A f \in FatalIdx : \A h \in HookIdx : h <= f
            /\ Len(exp) = Cardinality(HookIdx)
            /\ \A k \in DOMAIN exp : exp[k].what # "SetDefaults"

C17_Witness ==
    /\ Done
    /\ stage = "configure"
    /\ scenarioApps = <<"X", "Y">>
    /\ ret # <<>>
    /\ Len(exp) = 5
    /\ exp[5] = [by |-> "UserApp", idx |-> 1, what |-> "Configure"]

\* C18: with a Stage that is none of the four, no hook is ever called; the
\* finished call has Init-ed every non-default scenario entry once, has
\* reported the four default apps and every non-default entry as ok, has not
\* invoked SetDefaults, has left the experiment alone and has returned nil.
C18_UnknownStageNoHooks ==
    stage \notin {"configure", "pre-start", "post-start", "cleanup"}
    => /\ HookIdx = {}
       /\ \A k \in StatusIdx : log[k].what = "ok"
       /\ Done
            => /\ ret = <<>>
               /\ SetDefaultsCalls = 0
               /\ exp = <<>>
               /\ {log[k].idx : k \in InitIdx} = NonDefaultEntries
               /\ Cardinality(InitIdx) = Cardinality(NonDefaultEntries)
               /\ {log[k].app : k \in {s \in StatusIdx : log[s].pass = 1}}
                    = {"NTP", "Serial", "Startup", "Vrouter"}
               /\ Cardinality({s \in StatusIdx : log[s].pass = 1}) = 4
               /\ {log[k].idx : k \in {s \in StatusIdx : log[s].pass = 2}}
                    = NonDefaultEntries
               /\ Cardinality({s \in StatusIdx : log[s].pass = 2})
                    = Cardinality(NonDefaultEntries)

C18_Witness ==
    /\ Done
    /\ stage = ""
    /\ scenarioApps = <<"ntp", "X">>
    /\ ret = <<>>
    /\ Cardinality(InitIdx) = 1
    /\ Cardinality(StatusIdx) = 5
    /\ HookIdx = {}

\* C19: what Init returns is dropped: for the four stages the hook of the
\* entry is called right after its Init whatever Init returned; every status
\* record is the one of the hook result before it (ok if no hook was
\* called), and the finished call has returned an error exactly if a hook
\* result was fatal, wrapping that result and never Init's error.
C19_InitResultDropped ==
    /\ \A k \in InitIdx :
         /\ log[k].res = initRes
         /\ stage \in {"configure", "pre-start", "post-start", "cleanup"}
              => /\ k < Len(log)
                 /\ log[k + 1].ev = "hook"
                 /\ log[k + 1].idx = log[k].idx
    /\ \A k \in StatusIdx :
         log[k].what = IF k > 1 /\ log[k - 1].ev = "hook"
                         THEN ExpectedStatus(log[k - 1].res, log[k].pass)
                         ELSE "ok"
    /\ Done
         => /\ (ret # <<>>) <=> (FatalIdx # {})
            /\ \A k \in DOMAIN ret : ret[k].text # "init failed"

C19_Witness ==
    /\ Done
    /\ initRes # <<>>
    /\ stage = "pre-start"
    /\ scenarioApps = <<"X">>
    /\ ret = <<>>
    /\ \E k \in InitIdx :
         /\ log[k].res # <<>>
         /\ log[k + 1].ev = "hook"
         /\ log[k + 1].res = <<>>
         /\ log[k + 2].what = "ok"

(* ------------------------ registry properties -------------------------- *)

\* how often name n occurs in the sequence q
Occurrences(q, n) == Cardinality({k \in DOMAIN q : q[k] = n})

\* C11: GetApp never answers nil: for a name with a registry entry it
\* answers that entry's instance, for every other name the instance
\* registered as "user-shell".
C11_GetAppTotal ==
    call.op = "GetApp"
    => /\ call.app \in {"NTP", "Serial", "Startup", "UserApp", "Vrouter"}
       /\ call.name \in DOMAIN registry => call.app = registry[call.name]
       /\ call.name \notin DOMAIN registry
            => /\ "user-shell" \in DOMAIN registry
               /\ call.app = registry["user-shell"]

C11_Witness ==
    /\ call.op = "GetApp"
    /\ call.name = "X"
    /\ call.app = "UserApp"

\* C14: List() answers exactly the registry names that are neither
\* "user-shell" nor default names, once each, together with every name
\* FindCommandsWithPrefix found: a name occurs as often as it was found,
\* plus once if it is such a registry name, so no default name and no
\* fallback name comes from the registry.
C14_ListNames ==
    call.op = "List"
    => \A n \in DOMAIN registry \cup CommandNames
                \cup {call.out[k] : k \in DOMAIN call.out} :
         Occurrences(call.out, n)
           = Occurrences(call.found, n)
             + (IF /\ n \in DOMAIN registry
                   /\ n # "user-shell"
                   /\ n \notin {"ntp", "serial", "startup", "vrouter"}
                  THEN 1 ELSE 0)

C14_Witness ==
    /\ call.op = "List"
    /\ call.order[1] = "user-shell"
    /\ call.found = <<"foo", "ntp">>
    /\ call.out = <<"foo", "ntp">>

\* C16: once init() has run, every default name has a registry entry that
\* is an app, "user-shell" has a registry entry and is no default name, and
\* DefaultApps() answers the four instances registered under the default
\* names, each once, in some order.
C16_RegistryInvariant ==
    regPc = "ready"
    => /\ \A n \in defaultApps :
            /\ n \in DOMAIN registry
            /\ registry[n] \in {"NTP", "Serial", "Startup", "Vrouter"}
       /\ "user-shell" \in DOMAIN registry
       /\ registry["user-shell"] = "UserApp"
       /\ "user-shell" \notin defaultApps
       /\ Cardinality(defaultApps) = 4
       /\ call.op = "DefaultApps"
            => /\ Len(call.out) = 4
               /\ {call.out[k] : k \in DOMAIN call.out}
                    = {registry[n] : n \in {"ntp", "serial", "startup", "vrouter"}}
               /\ Cardinality({call.out[k] : k \in DOMAIN call.out}) = 4

C16_Witness ==
    /\ regPc = "ready"
    /\ call.op = "DefaultApps"
    /\ call.out = <<"Vrouter", "NTP", "Startup", "Serial">>

(* ----------------------- properties of two calls ----------------------- *)

\* the Cleanup calls that the events q made on instance a
CleanupsOn(q, a) ==
    Cardinality({k \in DOMAIN q : /\ q[k].ev = "hook"
                                  /\ q[k].what = "Cleanup"
                                  /\ q[k].app = a})

\* C13: two cleanups in succession of the same experiment, with apps that
\* behave the same in both, invoke the same multiset of Cleanup hooks, and
\* neither invokes SetDefaults.
C13_SameCleanupsTwice ==
    (Done /\ calls = 2)
    => /\ \A a \in Instances : CleanupsOn(prevLog, a) = CleanupsOn(log, a)
       /\ \A k \in DOMAIN prevLog : prevLog[k].ev # "setdefaults"
       /\ \A k \in DOMAIN log : log[k].ev # "setdefaults"

====
